---- MODULE Spec2Model ----
(***************************************************************************)
(* Model of monolithic.io.zygo: the Zygo .dat header decoder, the payload  *)
(* extractor with phase calibration, the .datx reader and the aperture     *)
(* reconstruction.                                                         *)
(*                                                                         *)
(* Representation choices                                                  *)
(*   - a byte buffer is the sequence of its bytes: the byte at the 0-based *)
(*     offset o is element o + 1;                                          *)
(*   - an integer that needs more than 31 bits is a pair of 16-bit limbs   *)
(*     [hi, lo] standing for hi * 65536 + lo with 0 <= lo < 65536;         *)
(*   - a floating point number is NaN, +-inf, or a finite value            *)
(*     m * 2^e * u with m a limb pair and u one of the literals 1, 1e-3,   *)
(*     1e-6, 1e-9 of the program, kept in canonical form (m odd, or m = 0, *)
(*     e = 0 and u = 1).  Arithmetic is exact: the inputs of the .dat path *)
(*     (u = 1 throughout) are bounded so that no float64 operation of the  *)
(*     program would round; the products with a unit literal of the .datx  *)
(*     path are kept as products.                                          *)
(*   - an n-d array is a record [shape, data] with data in row-major order.*)
(***************************************************************************)
EXTENDS Integers, Sequences, FiniteSets, TLC

Min(a, b) == IF a <= b THEN a ELSE b
Max(a, b) == IF a >= b THEN a ELSE b

RECURSIVE Pow2(_)
Pow2(k) == IF k = 0 THEN 1 ELSE 2 * Pow2(k - 1)

RECURSIVE Log2(_)
Log2(n) == IF n <= 1 THEN 0 ELSE 1 + Log2(n \div 2)

(***************************************************************************)
(* Limb pairs: integers beyond 31 bits.                                    *)
(***************************************************************************)
W(hi, lo) == [hi |-> hi, lo |-> lo]
WFromInt(n) == W(n \div 65536, n % 65536)
WZero == W(0, 0)
WIsZero(w) == w.hi = 0 /\ w.lo = 0
WEven(w) == w.lo % 2 = 0
WHalf(w) == W(w.hi \div 2, (w.lo \div 2) + (w.hi % 2) * 32768)
WAdd(a, b) == LET t == a.lo + b.lo IN W(a.hi + b.hi + (t \div 65536), t % 65536)
WNeg(a) == IF a.lo = 0 THEN W(-a.hi, 0) ELSE W(-a.hi - 1, 65536 - a.lo)
WLess(a, b) == a.hi < b.hi \/ (a.hi = b.hi /\ a.lo < b.lo)
WSmall(a) == a.hi \in {-1, 0}
WToInt(a) == a.hi * 65536 + a.lo
WMulSmall(a, k) == LET t == a.lo * k IN W(a.hi * k + (t \div 65536), t % 65536)
WMul(a, b) == IF WSmall(b) THEN WMulSmall(a, WToInt(b)) ELSE WMulSmall(b, WToInt(a))

RECURSIVE WShl(_, _)
WShl(a, k) == IF k = 0 THEN a ELSE WShl(WAdd(a, a), k - 1)

(***************************************************************************)
(* Floating point values (IEEE 754 semantics of NaN and infinities, exact  *)
(* arithmetic on the finite values).                                       *)
(***************************************************************************)
NaN == [k |-> "nan"]
Inf(neg) == [k |-> "inf", neg |-> neg]
Scaled(m, e, u) == [k |-> "fin", m |-> m, e |-> e, u |-> u]
Fin(m, e) == Scaled(m, e, "1")

RECURSIVE FNorm(_, _, _)
FNorm(m, e, u) ==
    IF WIsZero(m) THEN Fin(WZero, 0)
    ELSE IF WEven(m) THEN FNorm(WHalf(m), e + 1, u)
    ELSE Scaled(m, e, u)

FromInt(n) == FNorm(WFromInt(n), 0, "1")
FZero == Fin(WZero, 0)
IsNaN(a) == a.k = "nan"
IsFinite(a) == a.k = "fin"
FIsZero(a) == a.k = "fin" /\ WIsZero(a.m)
FNegative(a) == IF a.k = "inf" THEN a.neg ELSE a.k = "fin" /\ a.m.hi < 0

FNeg(a) ==
    CASE a.k = "nan" -> NaN
      [] a.k = "inf" -> Inf(~a.neg)
      [] OTHER -> Scaled(WNeg(a.m), a.e, a.u)

\* at most one of the factors carries a unit literal
FMul(a, b) ==
    CASE a.k = "nan" \/ b.k = "nan" -> NaN
      [] a.k = "inf" \/ b.k = "inf" ->
            IF FIsZero(a) \/ FIsZero(b) THEN NaN
            ELSE Inf(FNegative(a) # FNegative(b))
      [] OTHER -> FNorm(WMul(a.m, b.m), a.e + b.e, IF a.u = "1" THEN b.u ELSE a.u)

\* true division of a float by a positive integer that is a power of two
FDivPow2(a, d) ==
    CASE a.k = "nan" -> NaN
      [] a.k = "inf" -> a
      [] OTHER -> IF WIsZero(a.m) THEN a ELSE Scaled(a.m, a.e - Log2(d), a.u)

\* the terms that are not zero carry the same unit literal
FAdd(a, b) ==
    CASE a.k = "nan" \/ b.k = "nan" -> NaN
      [] a.k = "inf" /\ b.k = "inf" -> IF a.neg = b.neg THEN a ELSE NaN
      [] a.k = "inf" -> a
      [] b.k = "inf" -> b
      [] WIsZero(a.m) -> b
      [] WIsZero(b.m) -> a
      [] OTHER -> FNorm(WAdd(WShl(a.m, a.e - Min(a.e, b.e)), WShl(b.m, b.e - Min(a.e, b.e))),
                        Min(a.e, b.e), a.u)

FSub(a, b) == FAdd(a, FNeg(b))

\* a < b on non-NaN values
FLess(a, b) ==
    CASE a.k = "inf" -> a.neg /\ ~(b.k = "inf" /\ b.neg)
      [] b.k = "inf" -> ~b.neg
      [] OTHER -> FNegative(FSub(a, b))

(***************************************************************************)
(* Outcome of a call: a returned value or a raised exception.              *)
(***************************************************************************)
Ok(v) == [exc |-> "none", val |-> v]
Raise(e) == [exc |-> e]
IsOk(r) == r.exc = "none"

(***************************************************************************)
(* Byte buffers and Python slicing: b[a:e] is clipped to the buffer.       *)
(***************************************************************************)
Slice(buf, a, e) == SubSeq(buf, a + 1, Min(e, Len(buf)))

Reverse(s) == [i \in 1..Len(s) |-> s[Len(s) + 1 - i]]

ZYGO_INVALID_PHASE == 2147483640
ZYGO_ENC == "utf-8"
\* the factor of code 1 doubled
ZYGO_PHASE_RES_FACTORS_wrong == [c \in {0, 1, 2} |-> CASE c = 0 -> 4096 [] c = 1 -> 65536 [] c = 2 -> 131072]
ZYGO_PHASE_RES_FACTORS == [c \in {0, 1, 2} |-> CASE c = 0 -> 4096 [] c = 1 -> 32768 [] c = 2 -> 131072]

\* struct format characters bound at the top of _read_zygo_dat_meta
FmtSize(fmt) ==
    CASE fmt \in {"IB16", "IL16"} -> 2
      [] fmt \in {"IB32", "IL32", "FB32", "FL32"} -> 4
      [] fmt \in {"C", "uint8"} -> 1

\* the odd part of a positive integer and the power of two taken out of it
RECURSIVE OddPart(_, _)
OddPart(m, e) == IF m % 2 = 0 THEN OddPart(m \div 2, e + 1) ELSE <<m, e>>

\* the four bytes of an IEEE 754 binary32, most significant first
DecodeF32(b) ==
    LET s == b[1] \div 128
        ex == (b[1] % 128) * 2 + (b[2] \div 128)
        mant == (b[2] % 128) * 65536 + b[3] * 256 + b[4]
        value(m, e) == LET o == OddPart(m, e)
                       IN  Fin(WFromInt(IF s = 1 THEN -o[1] ELSE o[1]), o[2])
    IN  IF ex = 255 THEN (IF mant = 0 THEN Inf(s = 1) ELSE NaN)
        ELSE IF ex = 0 THEN (IF mant = 0 THEN FZero ELSE value(mant, -149))
        ELSE value(8388608 + mant, ex - 150)

\* every format read big-endian
unpack_big_endian(fmt, b) ==
    IF Len(b) # FmtSize(fmt) THEN Raise("struct.error")
    ELSE CASE fmt \in {"IB16", "IL16"} -> Ok(b[1] * 256 + b[2])
           [] fmt \in {"IB32", "IL32"} -> Ok(W(b[1] * 256 + b[2], b[3] * 256 + b[4]))
           [] fmt \in {"FB32", "FL32"} -> Ok(DecodeF32(b))
           [] fmt = "C" -> Ok(b)
           [] fmt = "uint8" -> Ok(b[1])

\* struct.unpack(fmt, b)[0]: struct.error unless b has exactly the size of fmt
unpack(fmt, b) ==
    IF Len(b) # FmtSize(fmt) THEN Raise("struct.error")
    ELSE CASE fmt = "IB16" -> Ok(b[1] * 256 + b[2])
           [] fmt = "IL16" -> Ok(b[2] * 256 + b[1])
           [] fmt = "IB32" -> Ok(W(b[1] * 256 + b[2], b[3] * 256 + b[4]))
           [] fmt = "IL32" -> Ok(W(b[4] * 256 + b[3], b[2] * 256 + b[1]))
           [] fmt = "FB32" -> Ok(DecodeF32(b))
           [] fmt = "FL32" -> Ok(DecodeF32(Reverse(b)))
           [] fmt = "C" -> Ok(b)
           [] fmt = "uint8" -> Ok(b[1])

\* bytes.decode('utf-8'): the sequence of code points, or UnicodeDecodeError
Utf8Follow(c) ==
    CASE c < 128 -> 0
      [] c >= 194 /\ c <= 223 -> 1
      [] c >= 224 /\ c <= 239 -> 2
      [] c >= 240 /\ c <= 244 -> 3
      [] OTHER -> -1
Utf8SecondLo(c) == CASE c = 224 -> 160 [] c = 240 -> 144 [] OTHER -> 128
Utf8SecondHi(c) == CASE c = 237 -> 159 [] c = 244 -> 143 [] OTHER -> 191
Utf8Lead(c, n) == CASE n = 0 -> c [] n = 1 -> c - 192 [] n = 2 -> c - 224 [] n = 3 -> c - 240

RECURSIVE Utf8Tail(_, _, _, _)
Utf8Tail(b, i, n, cp) == IF n = 0 THEN cp ELSE Utf8Tail(b, i + 1, n - 1, cp * 64 + (b[i] - 128))

Utf8Cont(c) == c >= 128 /\ c <= 191

\* the byte at i starts a well-formed character that is followed by the
\* start of another character or by the end of the bytes
Utf8GoodAt(b, i) ==
    LET c == b[i]
        n == Utf8Follow(c)
    IN  /\ n >= 0
        /\ i + n <= Len(b)
        /\ n >= 1 => b[i + 1] >= Utf8SecondLo(c) /\ b[i + 1] <= Utf8SecondHi(c)
        /\ \A j \in 2..n : Utf8Cont(b[i + j])
        /\ i + n + 1 <= Len(b) => ~Utf8Cont(b[i + n + 1])

\* bytes that are all below 128 decode to themselves
decode(b) ==
    IF b \in Seq(0..127) THEN Ok(b)
    ELSE IF Utf8Cont(b[1]) \/ \E i \in 1..Len(b) : ~Utf8Cont(b[i]) /\ ~Utf8GoodAt(b, i)
    THEN Raise("UnicodeDecodeError")
    ELSE LET starts == {i \in 1..Len(b) : ~Utf8Cont(b[i])}
             start(k) == CHOOSE i \in starts : Cardinality({j \in starts : j <= i}) = k
         IN  Ok([k \in 1..Cardinality(starts) |->
                   LET i == start(k)
                       n == Utf8Follow(b[i])
                   IN  Utf8Tail(b, i + 1, n, Utf8Lead(b[i], n))])

\* str.rstrip(WASTE_BYTE): drop the trailing NUL characters
rstrip(s) ==
    IF s \in Seq({0}) THEN <<>>
    ELSE LET kept == {i \in 1..Len(s) : s[i] # 0}
         IN  SubSeq(s, 1, CHOOSE i \in kept : \A j \in kept : j <= i)

(***************************************************************************)
(* The header fields read after the identity triple:                       *)
(* name |-> <<first offset, end offset, struct format, shape>>.  The       *)
(* source reads them in the order of their offsets.  "text" is a decoded   *)
(* byte range, "Cstr" a decoded 'c' unpack; shape "tuple" keeps the        *)
(* 1-tuple that struct.unpack returns, "list" is a list of floats.         *)
(***************************************************************************)
HeaderFields ==
    [
      swinfo_type |-> <<10, 12, "IB16", "scalar">>,
      swinfo_date |-> <<12, 42, "text", "scalar">>,
      swinfo_vers_maj |-> <<42, 44, "IB16", "scalar">>,
      swinfo_vers_min |-> <<44, 46, "IB16", "scalar">>,
      swinfo_vers_bug |-> <<46, 48, "IB16", "scalar">>,
      ac_org_x |-> <<48, 50, "IB16", "scalar">>,
      ac_org_y |-> <<50, 52, "IB16", "scalar">>,
      ac_width |-> <<52, 54, "IB16", "scalar">>,
      ac_height |-> <<54, 56, "IB16", "scalar">>,
      ac_n_buckets |-> <<56, 58, "IB16", "scalar">>,
      ac_range |-> <<58, 60, "IB16", "scalar">>,
      ac_n_bytes |-> <<60, 64, "IB32", "scalar">>,
      cn_org_x |-> <<64, 66, "IB16", "scalar">>,
      cn_org_y |-> <<66, 68, "IB16", "scalar">>,
      cn_width |-> <<68, 70, "IB16", "scalar">>,
      cn_height |-> <<70, 72, "IB16", "scalar">>,
      cn_n_bytes |-> <<72, 76, "IB32", "scalar">>,
      time_stamp |-> <<76, 80, "IB32", "scalar">>,
      comment |-> <<80, 162, "text", "scalar">>,
      source |-> <<162, 164, "IB16", "scalar">>,
      scale_factor |-> <<164, 168, "FB32", "scalar">>,
      wavelength |-> <<168, 172, "FB32", "scalar">>,
      num_aperture |-> <<172, 176, "FB32", "scalar">>,
      obliquity_factor |-> <<176, 180, "FB32", "scalar">>,
      magnification |-> <<180, 184, "FB32", "scalar">>,
      lateral_res |-> <<184, 188, "FB32", "scalar">>,
      acq_type |-> <<188, 190, "IB16", "scalar">>,
      intens_avg_count |-> <<190, 192, "IB16", "scalar">>,
      ramp_cal |-> <<192, 194, "IB16", "scalar">>,
      sfac_limit |-> <<194, 196, "IB16", "scalar">>,
      ramp_gain |-> <<196, 198, "IB16", "scalar">>,
      part_thickness |-> <<198, 202, "FB32", "scalar">>,
      sw_llc |-> <<202, 204, "IB16", "scalar">>,
      target_range |-> <<204, 208, "FB32", "scalar">>,
      rad_crv_measure_seq |-> <<208, 210, "IL16", "scalar">>,
      min_mod |-> <<210, 214, "IB32", "scalar">>,
      min_mod_count |-> <<214, 218, "IB32", "scalar">>,
      phase_res |-> <<218, 220, "IB16", "scalar">>,
      min_area |-> <<220, 224, "IB32", "scalar">>,
      discon_action |-> <<224, 226, "IB16", "scalar">>,
      discon_filter |-> <<226, 230, "FB32", "scalar">>,
      connect_order |-> <<230, 232, "IB16", "scalar">>,
      sign |-> <<232, 234, "IB16", "scalar">>,
      camera_width |-> <<234, 236, "IB16", "scalar">>,
      camera_height |-> <<236, 238, "IB16", "scalar">>,
      sys_type |-> <<238, 240, "IB16", "scalar">>,
      sys_board |-> <<240, 242, "IB16", "scalar">>,
      sys_serial |-> <<242, 244, "IB16", "scalar">>,
      sys_inst_id |-> <<244, 246, "IB16", "scalar">>,
      obj_name |-> <<246, 258, "text", "scalar">>,
      part_name |-> <<258, 298, "text", "scalar">>,
      codev_type |-> <<298, 300, "IB16", "scalar">>,
      phase_avg_count |-> <<300, 302, "IB16", "scalar">>,
      sub_sys_err |-> <<302, 304, "IB16", "scalar">>,
      part_sn |-> <<320, 360, "text", "scalar">>,
      refractive_index |-> <<360, 364, "FB32", "scalar">>,
      remove_tilt |-> <<364, 366, "IB16", "scalar">>,
      remove_fringes |-> <<366, 368, "IB16", "scalar">>,
      max_area |-> <<368, 372, "IB32", "scalar">>,
      setup_type |-> <<372, 374, "IB16", "scalar">>,
      wrapped |-> <<374, 376, "IB16", "scalar">>,
      pre_connect_filter |-> <<376, 380, "FB32", "scalar">>,
      wavelength_in_2 |-> <<380, 384, "FB32", "scalar">>,
      wavelength_fold |-> <<384, 386, "IB16", "scalar">>,
      wavelength_in_1 |-> <<386, 390, "FB32", "scalar">>,
      wavelength_in_3 |-> <<390, 394, "FB32", "scalar">>,
      wavelength_in_4 |-> <<394, 398, "FB32", "scalar">>,
      wavelength_select |-> <<398, 406, "text", "scalar">>,
      fda_res |-> <<406, 408, "IB16", "scalar">>,
      scan_description |-> <<408, 428, "text", "scalar">>,
      n_fiducials |-> <<428, 430, "IB16", "tuple">>,
      fiducials |-> <<430, 486, "FB32", "list">>,
      pixel_width |-> <<486, 490, "FB32", "scalar">>,
      pixel_height |-> <<490, 494, "FB32", "scalar">>,
      exit_pupil_diameter |-> <<494, 498, "FB32", "scalar">>,
      light_level_percent |-> <<498, 502, "FB32", "scalar">>,
      coords_state |-> <<502, 506, "IL32", "scalar">>,
      coords_x_pos |-> <<506, 510, "FL32", "scalar">>,
      coords_y_pos |-> <<510, 514, "FL32", "scalar">>,
      coords_z_pos |-> <<514, 518, "FL32", "scalar">>,
      coords_x_rot |-> <<518, 522, "FL32", "scalar">>,
      coords_y_rot |-> <<522, 526, "FL32", "scalar">>,
      coords_z_rot |-> <<526, 530, "FL32", "scalar">>,
      coherence_mode |-> <<530, 532, "IL16", "scalar">>,
      surface_filter |-> <<532, 534, "IL16", "scalar">>,
      sys_err_file_name |-> <<534, 562, "text", "scalar">>,
      zoom_descr |-> <<562, 570, "text", "scalar">>,
      alpha_part |-> <<570, 574, "FL32", "scalar">>,
      beta_part |-> <<574, 578, "FL32", "scalar">>,
      dist_part |-> <<578, 582, "FL32", "scalar">>,
      cam_split_loc_x |-> <<582, 584, "IL16", "scalar">>,
      cam_split_loc_y |-> <<584, 586, "IL16", "scalar">>,
      cam_split_trans_x |-> <<586, 588, "IL16", "scalar">>,
      cam_split_trans_y |-> <<588, 590, "IL16", "scalar">>,
      material_a |-> <<590, 614, "text", "scalar">>,
      material_b |-> <<614, 638, "text", "scalar">>,
      dmi_ctr_x |-> <<642, 646, "FL32", "scalar">>,
      dmi_ctr_y |-> <<646, 650, "FL32", "scalar">>,
      sph_dist_corr |-> <<650, 652, "IL16", "scalar">>,
      sph_dist_part_na |-> <<654, 658, "FL32", "scalar">>,
      sph_dist_part_radius |-> <<658, 662, "FL32", "scalar">>,
      sph_dist_cal_na |-> <<662, 666, "FL32", "scalar">>,
      sph_dist_cal_radius |-> <<666, 670, "FL32", "scalar">>,
      surface_type |-> <<670, 672, "IL16", "scalar">>,
      ac_surface_type |-> <<672, 674, "IL16", "scalar">>,
      z_pos |-> <<674, 678, "FL32", "scalar">>,
      power_multiplier |-> <<678, 682, "FL32", "scalar">>,
      focus_multiplier |-> <<682, 686, "FL32", "scalar">>,
      roc_focus_cal_factor |-> <<686, 690, "FL32", "scalar">>,
      roc_power_cal_factor |-> <<690, 694, "FL32", "scalar">>,
      ftp_left_pos |-> <<694, 698, "FL32", "scalar">>,
      ftp_right_pos |-> <<698, 702, "FL32", "scalar">>,
      ftp_pitch_pos |-> <<702, 706, "FL32", "scalar">>,
      ftp_roll_pos |-> <<706, 710, "FL32", "scalar">>,
      min_mod_percent |-> <<710, 714, "FL32", "scalar">>,
      max_intens |-> <<714, 718, "IL32", "scalar">>,
      ring_of_fire |-> <<718, 720, "IL16", "scalar">>,
      rc_orientation |-> <<721, 722, "Cstr", "scalar">>,
      rc_distance |-> <<722, 726, "FL32", "scalar">>,
      rc_angle |-> <<726, 730, "FL32", "scalar">>,
      rc_diameter |-> <<730, 734, "FL32", "scalar">>,
      rem_fringes_mode |-> <<734, 736, "IB16", "scalar">>,
      ftpsi_phase_res |-> <<737, 738, "uint8", "scalar">>,
      frames_acquired |-> <<738, 740, "IL16", "scalar">>,
      cavity_type |-> <<740, 742, "IL16", "scalar">>,
      cam_frame_rate |-> <<742, 746, "FL32", "scalar">>,
      tune_range |-> <<746, 750, "FL32", "scalar">>,
      cal_pix_loc_x |-> <<750, 752, "IL16", "scalar">>,
      cal_pix_loc_y |-> <<752, 754, "IL16", "scalar">>,
      n_test_cal_pts |-> <<754, 756, "IL16", "scalar">>,
      n_ref_cal_pts |-> <<756, 758, "IL16", "scalar">>,
      test_cal_pts |-> <<758, 774, "FL32", "list">>,
      ref_cal_pts |-> <<774, 790, "FL32", "list">>,
      test_cal_pix_opd |-> <<790, 794, "FL32", "scalar">>,
      test_ref_pix_opd |-> <<794, 798, "FL32", "scalar">>,
      flash_phase_cd_mask |-> <<798, 802, "FL32", "scalar">>,
      flash_phase_alias_mask |-> <<802, 806, "FL32", "scalar">>,
      flask_phase_filter |-> <<806, 810, "FL32", "scalar">>,
      scan_direction |-> <<810, 811, "uint8", "scalar">>,
      ftpsi_res_factor |-> <<814, 816, "IL16", "scalar">>
    ]

RECURSIVE ListFrom(_, _, _, _, _)
ListFrom(buf, fmt, a, e, acc) ==
    IF a >= e THEN Ok(acc)
    ELSE LET r == unpack(fmt, Slice(buf, a, a + 4))
         IN  IF IsOk(r) THEN ListFrom(buf, fmt, a + 4, e, Append(acc, r.val)) ELSE r

\* .rstrip(WASTE_BYTE) of a decoded text, .decode(ZYGO_ENC) of an unpacked
\* character and the tuple that unpack returns when [0] is not taken
strip_text(d) == IF IsOk(d) THEN Ok(rstrip(d.val)) ELSE d
decode_char(u) == IF IsOk(u) THEN strip_text(decode(u.val)) ELSE u
as_tuple(u) == IF IsOk(u) THEN Ok(<<u.val>>) ELSE u

\* one assignment meta[name] = ... of _read_zygo_dat_meta
ReadField(buf, t) ==
    CASE t[3] = "text" -> strip_text(decode(Slice(buf, t[1], t[2])))
      [] t[3] = "Cstr" -> decode_char(unpack("C", Slice(buf, t[1], t[2])))
      [] t[4] = "list" -> ListFrom(buf, t[3], t[1], t[2], <<>>)
      [] t[4] = "tuple" -> as_tuple(unpack(t[3], Slice(buf, t[1], t[2])))
      [] OTHER -> unpack(t[3], Slice(buf, t[1], t[2]))

\* the exception of the first assignment that raises, "none" if none does
FirstFailure(buf) ==
    LET bad == {n \in DOMAIN HeaderFields : ~IsOk(ReadField(buf, HeaderFields[n]))}
    IN  IF bad = {} THEN "none"
        ELSE ReadField(buf, HeaderFields[CHOOSE n \in bad :
                         \A o \in bad : HeaderFields[n][1] <= HeaderFields[o][1]]).exc

\* each of the three values checked on its own
ValidTriple_apart(magic, format, size) ==
    /\ magic \in {W(34843, 879), W(34843, 880), W(34843, 881)}
    /\ format \in {1, 2, 3}
    /\ size \in {W(0, 834), W(0, 4096)}

\* the three accepted (magic_number, header_format, header_size) triples;
\* the magic numbers 0x881B036F, 0x881B0370, 0x881B0371 as limb pairs
ValidTriple(magic, format, size) ==
    \/ magic = W(34843, 879) /\ format = 1 /\ size = W(0, 834)
    \/ magic = W(34843, 880) /\ format = 2 /\ size = W(0, 834)
    \/ magic = W(34843, 881) /\ format = 3 /\ size = W(0, 4096)

_read_zygo_dat_meta(file_contents) ==
    LET magic == unpack("IB32", Slice(file_contents, 0, 4))
        format == unpack("IB16", Slice(file_contents, 4, 6))
        size == unpack("IB32", Slice(file_contents, 6, 10))
    IN  IF ~IsOk(magic) THEN magic
        ELSE IF ~IsOk(format) THEN format
        ELSE IF ~IsOk(size) THEN size
        ELSE IF ~ValidTriple(magic.val, format.val, size.val) THEN Raise("ValueError")
        ELSE LET ff == FirstFailure(file_contents)
             IN  IF ff # "none" THEN Raise(ff)
                 ELSE Ok([n \in DOMAIN HeaderFields \cup {"magic_number", "header_format", "header_size"} |->
                            CASE n = "magic_number" -> magic.val
                              [] n = "header_format" -> format.val
                              [] n = "header_size" -> WToInt(size.val)
                              [] OTHER -> ReadField(file_contents, HeaderFields[n]).val])

(***************************************************************************)
(* numpy arrays: [shape, data], data in row-major order.                   *)
(***************************************************************************)
None == [none |-> TRUE]
NDArray(shape, data) == [shape |-> shape, data |-> data]
At(A, i, j) == A.data[i * A.shape[2] + j + 1]

\* no check of the size of the buffer: the missing bytes read as zero
frombuffer_unchecked(buf, offset, count, itemsize) ==
    LET padded == buf \o [i \in 1..(offset + count * itemsize) |-> 0]
    IN  Ok([i \in 1..count |-> Slice(padded, offset + (i - 1) * itemsize, offset + i * itemsize)])

\* numpy.frombuffer(buf, offset=..., count=..., dtype of itemsize bytes):
\* the items as they lie in memory, or ValueError when the buffer is short
frombuffer(buf, offset, count, itemsize) ==
    IF offset > Len(buf) THEN Raise("ValueError")
    ELSE IF Len(buf) - offset < count * itemsize THEN Raise("ValueError")
    ELSE Ok([i \in 1..count |-> Slice(buf, offset + (i - 1) * itemsize, offset + i * itemsize)])

\* the value of an item in the byte order of the host (little-endian)
native_uint16(b) == b[2] * 256 + b[1]
native_int32(b) == W((IF b[4] >= 128 THEN b[4] - 256 ELSE b[4]) * 256 + b[3], b[2] * 256 + b[1])

\* the bytes left in their order
byteswap_skipped(b) == b

\* .byteswap(True)
byteswap(b) == Reverse(b)
astype_float(w) == FNorm(w, 0, "1")

\* phase > ZYGO_INVALID_PHASE
mask_invalid_strict(x) == IF ~IsNaN(x) /\ FLess(FromInt(ZYGO_INVALID_PHASE), x) THEN NaN ELSE x

\* phase[phase >= ZYGO_INVALID_PHASE] = np.nan
mask_invalid(x) == IF ~IsNaN(x) /\ ~FLess(x, FromInt(ZYGO_INVALID_PHASE)) THEN NaN ELSE x

\* scale_factor * obliquity_factor * wavelength / ZYGO_PHASE_RES_FACTORS[phase_res]
calibration(meta) ==
    FDivPow2(FMul(FMul(meta["scale_factor"], meta["obliquity_factor"]), meta["wavelength"]),
             ZYGO_PHASE_RES_FACTORS[meta["phase_res"]])

\* the bucket count as it is, 0 included
intens_size_raw_buckets(meta) == meta["ac_width"] * meta["ac_height"] * meta["ac_n_buckets"]

\* intens_width * intens_height * intens_buckets, 0 buckets counting as 1
intens_size(meta) ==
    meta["ac_width"] * meta["ac_height"] * (IF meta["ac_n_buckets"] = 0 THEN 1 ELSE meta["ac_n_buckets"])

\* phase_width * phase_height
phase_size(meta) == meta["cn_width"] * meta["cn_height"]

\* .reshape((intens_buckets, intens_height, intens_width)) of the uint16 items
intensity_of(meta, iraw) ==
    IF ~IsOk(iraw) THEN iraw
    ELSE Ok(NDArray(<<IF meta["ac_n_buckets"] = 0 THEN 1 ELSE meta["ac_n_buckets"],
                      meta["ac_height"], meta["ac_width"]>>,
                    [i \in 1..Len(iraw.val) |-> native_uint16(iraw.val[i])]))

\* 2. read intensity, if presented
read_intensity(file_contents, meta) ==
    IF intens_size(meta) > 0
    THEN intensity_of(meta, frombuffer(file_contents, meta["header_size"], intens_size(meta), 2))
    ELSE Ok(None)

\* the int32 items byteswapped, as floats, reshaped, masked and scaled
phase_of(meta, phase_raw) ==
    IF ~IsOk(phase_raw) THEN phase_raw
    ELSE IF meta["phase_res"] \notin DOMAIN ZYGO_PHASE_RES_FACTORS THEN Raise("KeyError")
    ELSE Ok(NDArray(<<meta["cn_height"], meta["cn_width"]>>,
                    [i \in 1..Len(phase_raw.val) |->
                       FMul(mask_invalid(astype_float(native_int32(byteswap(phase_raw.val[i])))),
                            calibration(meta))]))

\* 3. read phase
read_phase(file_contents, meta) ==
    IF phase_size(meta) > 0
    THEN phase_of(meta, frombuffer(file_contents, meta["header_size"] + intens_size(meta) * 2,
                                   phase_size(meta), 4))
    ELSE Ok(None)

\* the dict returned, unless a step raised; the intensity is read first
measurement(meta, intensity, phase) ==
    IF ~IsOk(intensity) THEN intensity
    ELSE IF ~IsOk(phase) THEN phase
    ELSE Ok([phase |-> phase.val, intensity |-> intensity.val, meta |-> meta])

\* the steps 2 and 3 on the outcome r of the step 1
read_blocks(file_contents, r) ==
    IF ~IsOk(r) THEN r
    ELSE measurement(r.val, read_intensity(file_contents, r.val), read_phase(file_contents, r.val))

read_zygo_dat(file_contents) == read_blocks(file_contents, _read_zygo_dat_meta(file_contents))

(***************************************************************************)
(* The .datx reader.  An HDF5 file is what h5py returns for it:             *)
(*   Intensity   the outcome of reading the first dataset of the group     *)
(*               Data/Intensity: an array of integers, or KeyError (no     *)
(*               such group), OSError (unreadable), IndexError (no         *)
(*               dataset in the group);                                    *)
(*   Surface     the outcome of reading the first dataset of Data/Surface: *)
(*               [data, no_data, wavelength, scale_factor, obliquity];     *)
(*   Attributes  the outcome of reading the attributes of the last group   *)
(*               of Attributes: a sequence of [prefixed, key, dtype,       *)
(*               value], prefixed telling that the name starts with        *)
(*               "Data Context.Data Attributes." and key being the rest.   *)
(* A str is the sequence of its code points.                               *)
(***************************************************************************)
\* "Meters", "MiliMeters", "MicroMeters", "NanoMeters"
STR_Meters == <<77, 101, 116, 101, 114, 115>>
STR_MiliMeters == <<77, 105, 108, 105>> \o STR_Meters
STR_MicroMeters == <<77, 105, 99, 114, 111>> \o STR_Meters
STR_NanoMeters == <<78, 97, 110, 111>> \o STR_Meters

\* 1. read intensity (if presented): KeyError and OSError are caught
datx_intensity(f) ==
    IF IsOk(f.Intensity)
    THEN Ok(NDArray(f.Intensity.val.shape,
                    [i \in 1..Len(f.Intensity.val.data) |-> f.Intensity.val.data[i] % 65536]))
    ELSE IF f.Intensity.exc \in {"KeyError", "OSError"} THEN Ok(None)
    ELSE f.Intensity

\* phase[phase >= no_data] = np.nan
mask_no_data(x, no_data) ==
    IF ~IsNaN(x) /\ ~IsNaN(no_data) /\ ~FLess(x, no_data) THEN NaN ELSE x

\* 2. read phase: masked, then phase * obliquity * scale_factor * wavelength
datx_phase(f) ==
    IF ~IsOk(f.Surface) THEN f.Surface
    ELSE Ok(NDArray(f.Surface.val.data.shape,
                    [i \in 1..Len(f.Surface.val.data.data) |->
                       FMul(FMul(FMul(mask_no_data(f.Surface.val.data.data[i], f.Surface.val.no_data),
                                      f.Surface.val.obliquity),
                                 f.Surface.val.scale_factor),
                            f.Surface.val.wavelength)]))

\* meta[key] = value
setitem(meta, key, value) == [n \in DOMAIN meta \cup {key} |-> IF n = key THEN value ELSE meta[n]]

\* the value of an attribute as it is stored in meta; "skip" when the loop
\* continues without storing it
attr_value(a) ==
    CASE a.dtype = "object" -> IF a.value.bytes THEN decode(a.value.chars) ELSE Ok(a.value.chars)
      [] a.dtype \in {"uint8", "int32", "float64"} -> Ok(a.value)
      [] OTHER -> Raise("skip")

\* the loop over attrs.items()
RECURSIVE read_attrs(_, _, _)
read_attrs(attrs, i, meta) ==
    IF i > Len(attrs) THEN Ok(meta)
    ELSE IF ~attrs[i].prefixed /\ attrs[i].key \in {"Property Bag List", "Group Number", "TextCount"}
    THEN read_attrs(attrs, i + 1, meta)
    ELSE IF attr_value(attrs[i]).exc = "skip" THEN read_attrs(attrs, i + 1, meta)
    ELSE IF ~IsOk(attr_value(attrs[i])) THEN attr_value(attrs[i])
    ELSE read_attrs(attrs, i + 1, setitem(meta, attrs[i].key, attr_value(attrs[i]).val))

\* save the lateral resolution
lateral_res(meta) ==
    IF ~IsOk(meta) THEN meta
    ELSE IF ~({"Resolution:Unit", "Resolution:Value"} \subseteq DOMAIN meta.val) THEN Raise("KeyError")
    ELSE CASE meta.val["Resolution:Unit"] = STR_MiliMeters ->
                Ok(setitem(meta.val, "lateral_res", FMul(meta.val["Resolution:Value"], Scaled(W(0, 1), 0, "1e-3"))))
           [] meta.val["Resolution:Unit"] = STR_MicroMeters ->
                Ok(setitem(meta.val, "lateral_res", FMul(meta.val["Resolution:Value"], Scaled(W(0, 1), 0, "1e-6"))))
           [] meta.val["Resolution:Unit"] = STR_NanoMeters ->
                Ok(setitem(meta.val, "lateral_res", FMul(meta.val["Resolution:Value"], Scaled(W(0, 1), 0, "1e-9"))))
           [] meta.val["Resolution:Unit"] = STR_Meters ->
                Ok(setitem(meta.val, "lateral_res", meta.val["Resolution:Value"]))
           [] OTHER -> Raise("ValueError")

\* 3. get attrs
datx_meta(f) ==
    IF ~IsOk(f.Attributes) THEN f.Attributes
    ELSE lateral_res(read_attrs(f.Attributes.val, 1, << >>))

\* the dict returned, unless a step raised
measurement_datx(intensity, phase, meta) ==
    IF ~IsOk(intensity) THEN intensity
    ELSE IF ~IsOk(phase) THEN phase
    ELSE IF ~IsOk(meta) THEN meta
    ELSE Ok([phase |-> phase.val, intensity |-> intensity.val, meta |-> meta.val])

\* h5: the HDF5 file, None when the file is not one
read_zygo_datx(h5) ==
    IF h5 = None THEN Raise("OSError")
    ELSE measurement_datx(datx_intensity(h5), datx_phase(h5), datx_meta(h5))

(***************************************************************************)
(* Aperture reconstruction.                                                *)
(***************************************************************************)
\* the two axes exchanged
meshgrid_x_swapped(m, n) == NDArray(<<n, m>>, [k \in 1..(m * n) |-> FromInt((k - 1) % m)])

\* np.meshgrid(np.arange(0, n, dtype=float), np.arange(0, m, dtype=float))
meshgrid_x(m, n) == NDArray(<<m, n>>, [k \in 1..(m * n) |-> FromInt((k - 1) % n)])
meshgrid_y(m, n) == NDArray(<<m, n>>, [k \in 1..(m * n) |-> FromInt((k - 1) \div n)])

\* array * scalar
scale(A, L) == NDArray(A.shape, [k \in 1..Len(A.data) |-> FMul(A.data[k], L)])

RECURSIVE nanfold(_, _, _, _)
nanfold(d, i, acc, takeMax) ==
    IF i > Len(d) THEN acc
    ELSE IF IsNaN(d[i]) THEN nanfold(d, i + 1, acc, takeMax)
    ELSE IF IsNaN(acc) THEN nanfold(d, i + 1, d[i], takeMax)
    ELSE IF takeMax THEN nanfold(d, i + 1, IF FLess(acc, d[i]) THEN d[i] ELSE acc, takeMax)
    ELSE nanfold(d, i + 1, IF FLess(d[i], acc) THEN d[i] ELSE acc, takeMax)

\* the maximum (minimum) of the entries that are not NaN; NaN if there is none
nanmax(A) == nanfold(A.data, 1, NaN, TRUE)
nanmin(A) == nanfold(A.data, 1, NaN, FALSE)

\* the rows left in their order
flip_y_skipped(Y) == Y

\* np.nanmax(Y) - Y + np.nanmin(Y)
flip_y(Y) ==
    NDArray(Y.shape, [k \in 1..Len(Y.data) |-> FAdd(FSub(nanmax(Y), Y.data[k]), nanmin(Y))])

\* the rows and columns that A[r0:r1, c0:c1] selects: the slice is clipped
clip(a, n) == Min(a, n)
slice_rows(A, r0, r1) == Max(clip(r1, A.shape[1]) - clip(r0, A.shape[1]), 0)
slice_cols(A, c0, c1) == Max(clip(c1, A.shape[2]) - clip(c0, A.shape[2]), 0)

\* A[r0:r1, c0:c1]
getslice(A, r0, r1, c0, c1) ==
    LET h == slice_rows(A, r0, r1)
        w == slice_cols(A, c0, c1)
    IN  NDArray(<<h, w>>, [k \in 1..(h * w) |-> At(A, r0 + ((k - 1) \div w), c0 + ((k - 1) % w))])

\* can an array of shape vs be assigned to a slice of shape <<h, w>>
broadcastable(vs, h, w) == (vs[1] = h \/ vs[1] = 1) /\ (vs[2] = w \/ vs[2] = 1)

\* A[r0:r1, c0:c1] = V: A afterwards, or ValueError when V does not broadcast
setslice(A, r0, r1, c0, c1, V) ==
    LET h == slice_rows(A, r0, r1)
        w == slice_cols(A, c0, c1)
        n == A.shape[2]
        inside(i, j) == i >= r0 /\ i < r0 + h /\ j >= c0 /\ j < c0 + w
    IN  IF ~broadcastable(V.shape, h, w) THEN Raise("ValueError")
        ELSE Ok(NDArray(A.shape,
                  [k \in 1..Len(A.data) |->
                     LET i == (k - 1) \div n
                         j == (k - 1) % n
                     IN  IF inside(i, j)
                         THEN At(V, IF V.shape[1] = 1 THEN 0 ELSE i - r0,
                                    IF V.shape[2] = 1 THEN 0 ELSE j - c0)
                         ELSE A.data[k]]))

Grids(X, Y, Z, Xc, Yc, Zc) ==
    [X |-> X, Y |-> Y, Z |-> Z, X_cropped |-> Xc, Y_cropped |-> Yc, Z_cropped |-> Zc]

\* Z[p_ys : p_ys + p_height, p_xs : p_xs + p_width] = Z_cropped and the two
\* coordinate slices
crop(X, Y, Z_cropped, p_ys, p_xs, p_height, p_width, Zw) ==
    IF ~IsOk(Zw) THEN Zw
    ELSE Ok(Grids(X, Y, Zw.val,
                  getslice(X, p_ys, p_ys + p_height, p_xs, p_xs + p_width),
                  getslice(Y, p_ys, p_ys + p_height, p_xs, p_xs + p_width),
                  Z_cropped))

\* only phase is presented
phase_only(Z_cropped, X_cropped, Y_cropped) ==
    Ok(Grids(X_cropped, Y_cropped, Z_cropped, X_cropped, Y_cropped, Z_cropped))

\* the shape of the phase compared with the shape of one frame
full_aperture_frame_shape(meta, Z_intensity, Z_phase, X, Y, Z) ==
    IF Z_phase = None THEN Raise("AttributeError")
    ELSE IF <<Z_intensity.shape[2], Z_intensity.shape[3]>> = Z_phase.shape THEN Ok(Grids(X, Y, Z, X, Y, Z))
    ELSE IF ~({"cn_org_x", "cn_org_y", "cn_height", "cn_width"} \subseteq DOMAIN meta) THEN Raise("KeyError")
    ELSE crop(X, Y, Z_phase, meta["cn_org_x"], meta["cn_org_y"], meta["cn_height"], meta["cn_width"],
              setslice(Z, meta["cn_org_x"], meta["cn_org_x"] + meta["cn_height"],
                       meta["cn_org_y"], meta["cn_org_y"] + meta["cn_width"], Z_phase))

\* both intensity and phase are presented; the crop origin is read with
\* p_ys = cn_org_x and p_xs = cn_org_y
full_aperture(meta, Z_intensity, Z_phase, X, Y, Z) ==
    IF Z_phase = None THEN Raise("AttributeError")
    ELSE IF Z_intensity.shape = Z_phase.shape THEN Ok(Grids(X, Y, Z, X, Y, Z))
    ELSE IF ~({"cn_org_x", "cn_org_y", "cn_height", "cn_width"} \subseteq DOMAIN meta) THEN Raise("KeyError")
    ELSE crop(X, Y, Z_phase, meta["cn_org_x"], meta["cn_org_y"], meta["cn_height"], meta["cn_width"],
              setslice(Z, meta["cn_org_x"], meta["cn_org_x"] + meta["cn_height"],
                       meta["cn_org_y"], meta["cn_org_y"] + meta["cn_width"], Z_phase))

\* a missing phase handed on as six None values
embed_phase_optional(data) ==
    IF data.phase = None THEN Ok(Grids(None, None, None, None, None, None))
    ELSE IF data.intensity = None
    THEN phase_only(data.phase,
                    scale(meshgrid_x(data.phase.shape[1], data.phase.shape[2]), data.meta["lateral_res"]),
                    flip_y(scale(meshgrid_y(data.phase.shape[1], data.phase.shape[2]),
                                 data.meta["lateral_res"])))
    ELSE IF Len(data.intensity.shape) # 3 THEN Raise("ValueError")
    ELSE full_aperture(data.meta, data.intensity, data.phase,
                       scale(meshgrid_x(data.intensity.shape[2], data.intensity.shape[3]),
                             data.meta["lateral_res"]),
                       flip_y(scale(meshgrid_y(data.intensity.shape[2], data.intensity.shape[3]),
                                    data.meta["lateral_res"])),
                       NDArray(<<data.intensity.shape[2], data.intensity.shape[3]>>,
                               [k \in 1..(data.intensity.shape[2] * data.intensity.shape[3]) |-> NaN]))

\* lines 55-93 of read_zygo_binary, on the dict that the reader returned
embed(data) ==
    IF data.intensity = None
    THEN IF data.phase = None THEN Raise("AttributeError")
         ELSE phase_only(data.phase,
                         scale(meshgrid_x(data.phase.shape[1], data.phase.shape[2]), data.meta["lateral_res"]),
                         flip_y(scale(meshgrid_y(data.phase.shape[1], data.phase.shape[2]),
                                      data.meta["lateral_res"])))
    ELSE IF Len(data.intensity.shape) # 3 THEN Raise("ValueError")
    ELSE full_aperture(data.meta, data.intensity, data.phase,
                       scale(meshgrid_x(data.intensity.shape[2], data.intensity.shape[3]),
                             data.meta["lateral_res"]),
                       flip_y(scale(meshgrid_y(data.intensity.shape[2], data.intensity.shape[3]),
                                    data.meta["lateral_res"])),
                       NDArray(<<data.intensity.shape[2], data.intensity.shape[3]>>,
                               [k \in 1..(data.intensity.shape[2] * data.intensity.shape[3]) |-> NaN]))

\* the outcome of the reader, embedded unless the reader raised
embedded(data) == IF IsOk(data) THEN embed(data.val) ELSE data

\* file_name: [suffix, contents, h5]; the reader is chosen by the suffix
read_zygo_binary(file_name) ==
    CASE file_name.suffix = ".dat" -> embedded(read_zygo_dat(file_name.contents))
      [] file_name.suffix = ".datx" -> embedded(read_zygo_datx(file_name.h5))
      [] OTHER -> Raise("ValueError")

(***************************************************************************)
(* monolithic.math.removes: fit and remove a surface.  scipy's lstsq is a  *)
(* collaborator: its outcome for a design matrix H is a coefficient vector *)
(* with one entry per column of H, or LinAlgError.  A closure fit_func is  *)
(* the name of the function that defined it and the coefficients it holds. *)
(***************************************************************************)
\* A[id]: the entries of A, in row-major order, at which Z is finite
RECURSIVE select(_, _, _)
select(A, Z, k) ==
    IF k > Len(Z.data) THEN <<>>
    ELSE (IF IsFinite(Z.data[k]) THEN <<A.data[k]>> ELSE <<>>) \o select(A, Z, k + 1)

\* x**a for a float x and an int a >= 0; x**0 is 1.0 for every x
RECURSIVE power(_, _)
power(x, a) == IF a = 0 THEN FromInt(1) ELSE FMul(power(x, a - 1), x)

\* the monomials <<a, b>> of x**a * y**b in the order of the two loops:
\* for s in range(p + 1): for a in range(s, -1, -1): b = s - a
RECURSIVE monomials(_, _, _)
monomials(p, s, a) ==
    IF s > p THEN <<>>
    ELSE IF a < 0 THEN monomials(p, s + 1, s + 1)
    ELSE <<(<<a, s - a>>)>> \o monomials(p, s, a - 1)

\* np.column_stack((np.ones_like(x), x, y))
design_surface(x, y) ==
    NDArray(<<Len(x), 3>>,
            [k \in 1..(3 * Len(x)) |->
                CASE (k - 1) % 3 = 0 -> FromInt(1)
                  [] (k - 1) % 3 = 1 -> x[((k - 1) \div 3) + 1]
                  [] (k - 1) % 3 = 2 -> y[((k - 1) \div 3) + 1]])

\* np.column_stack((np.ones_like(x), x, y, x * x, y * y))
design_sphere(x, y) ==
    NDArray(<<Len(x), 5>>,
            [k \in 1..(5 * Len(x)) |->
                CASE (k - 1) % 5 = 0 -> FromInt(1)
                  [] (k - 1) % 5 = 1 -> x[((k - 1) \div 5) + 1]
                  [] (k - 1) % 5 = 2 -> y[((k - 1) \div 5) + 1]
                  [] (k - 1) % 5 = 3 -> FMul(x[((k - 1) \div 5) + 1], x[((k - 1) \div 5) + 1])
                  [] (k - 1) % 5 = 4 -> FMul(y[((k - 1) \div 5) + 1], y[((k - 1) \div 5) + 1])])

\* H[:, k] = x**a * y**b on np.ones(shape=(z.size, (p + 1) * (p + 2) // 2))
design_polynomials(x, y, z, p) ==
    LET n == ((p + 1) * (p + 2)) \div 2
    IN  NDArray(<<Len(z), n>>,
                [k \in 1..(n * Len(z)) |->
                    FMul(power(x[((k - 1) \div n) + 1], monomials(p, 0, 0)[((k - 1) % n) + 1][1]),
                         power(y[((k - 1) \div n) + 1], monomials(p, 0, 0)[((k - 1) % n) + 1][2]))])

\* the outcomes of lstsq(H, z, check_finite=False)
lstsq(H) == { Ok([i \in 1..H.shape[2] |-> FromInt(i)]), Raise("LinAlgError") }

\* coeffs[0] + coeffs[1] * X + coeffs[2] * Y
surface(coeffs, X, Y) ==
    NDArray(X.shape,
            [k \in 1..Len(X.data) |->
                FAdd(FAdd(coeffs[1], FMul(coeffs[2], X.data[k])), FMul(coeffs[3], Y.data[k]))])

\* coeffs[0] + coeffs[1] * X + coeffs[2] * Y + coeffs[3] * X * X + coeffs[3] * Y * Y
sphere(coeffs, X, Y) ==
    NDArray(X.shape,
            [k \in 1..Len(X.data) |->
                FAdd(FAdd(FAdd(FAdd(coeffs[1], FMul(coeffs[2], X.data[k])),
                               FMul(coeffs[3], Y.data[k])),
                          FMul(FMul(coeffs[4], X.data[k]), X.data[k])),
                     FMul(FMul(coeffs[4], Y.data[k]), Y.data[k]))])

\* Zf += coeffs[k] * X**a * Y**b over the monomials from the index i on
RECURSIVE polynomial(_, _, _, _, _, _)
polynomial(coeffs, X, Y, terms, i, Zf) ==
    IF i > Len(terms) THEN Zf
    ELSE polynomial(coeffs, X, Y, terms, i + 1,
                    NDArray(X.shape,
                            [k \in 1..Len(X.data) |->
                                FAdd(Zf.data[k],
                                     FMul(FMul(coeffs[i], power(X.data[k], terms[i][1])),
                                          power(Y.data[k], terms[i][2])))]))

\* Z - Z_fit
residual(Z, Z_fit) == NDArray(Z.shape, [k \in 1..Len(Z.data) |-> FSub(Z.data[k], Z_fit.data[k])])

\* return Zres, Z_fit, fit_func, coeffs
returned(Z, Z_fit, fit_func, coeffs) ==
    Ok(<<residual(Z, Z_fit), Z_fit, [fit_func |-> fit_func, coeffs |-> coeffs], coeffs>>)

\* remove_surface(X, Y, Z) with coeffs the outcome of lstsq on its design matrix
remove_surface(X, Y, Z, coeffs) ==
    IF ~IsOk(coeffs) THEN coeffs
    ELSE returned(Z, surface(coeffs.val, X, Y), "remove_surface", coeffs.val)

\* remove_polynomials(X, Y, Z, p) with coeffs the outcome of lstsq on its design matrix
remove_polynomials(X, Y, Z, p, coeffs) ==
    IF ~IsOk(coeffs) THEN coeffs
    ELSE returned(Z, polynomial(coeffs.val, X, Y, monomials(p, 0, 0), 1,
                                NDArray(X.shape, [k \in 1..Len(X.data) |-> FZero])),
                  "remove_polynomials", coeffs.val)

\* remove_sphere(X, Y, Z) with coeffs the outcome of lstsq on its design matrix
remove_sphere(X, Y, Z, coeffs) ==
    IF ~IsOk(coeffs) THEN coeffs
    ELSE returned(Z, sphere(coeffs.val, X, Y), "remove_sphere", coeffs.val)

(***************************************************************************)
(* Input files: synthetic .dat files, a header with chosen field values at *)
(* the offsets of the format followed by the intensity and phase blocks,   *)
(* possibly cut short.                                                     *)
(***************************************************************************)
MaxDim == 2
MaxBuckets == 2
MaxOrg == 2

\* widths and heights, bucket counts and crop origins of the synthetic files:
\* none, one, and the largest
Dims == {0, 1, MaxDim}
Buckets == {0, 1, MaxBuckets}
Origins == {0, 1, MaxOrg}

Zeros == [i \in 1..4096 |-> 0]
\* buf, zero-filled up to the offset off, followed by the bytes b
Put(buf, off, b) == buf \o SubSeq(Zeros, 1, off - Len(buf)) \o b
U16BE(v) == <<v \div 256, v % 256>>
U32BE(w) == U16BE(w.hi) \o U16BE(w.lo)

\* binary32 bit patterns, most significant byte first
F32_ZERO == <<0, 0, 0, 0>>
F32_HALF == <<63, 0, 0, 0>>
F32_ONE == <<63, 128, 0, 0>>
F32_TWO == <<64, 0, 0, 0>>
F32_THREE == <<64, 64, 0, 0>>
F32_MINUS_ONE == <<191, 128, 0, 0>>
F32_INF == <<127, 128, 0, 0>>
F32_NAN == <<127, 192, 0, 0>>

\* big-endian int32 phase samples: 0, 1, 256, -1, -2147483648, 2147483639,
\* 2147483640, 2147483647
Samples ==
    { <<0, 0, 0, 0>>, <<0, 0, 0, 1>>, <<0, 0, 1, 0>>, <<255, 255, 255, 255>>,
      <<128, 0, 0, 0>>, <<127, 255, 255, 247>>, <<127, 255, 255, 248>>, <<127, 255, 255, 255>> }

Magic036F == W(34843, 879)
Magics == {W(34843, 879), W(34843, 880), W(34843, 881), W(34843, 882)}

DefaultParams ==
    [magic |-> Magic036F, format |-> 1, size |-> W(0, 834), text |-> 0,
     acw |-> 0, ach |-> 0, acb |-> 0, cox |-> 0, coy |-> 0, cnw |-> 1, cnh |-> 1,
     sf |-> F32_ONE, of |-> F32_ONE, wl |-> F32_ONE, lr |-> F32_ONE, pres |-> 0,
     samples |-> <<>>, cut |-> 0, drop_phase |-> FALSE]

With(p, q) == [f \in DOMAIN p |-> IF f \in DOMAIN q THEN q[f] ELSE p[f]]

\* the intensity block: n uint16 pixels, the pixel i holding i + 1
RECURSIVE PixelBlock(_, _)
PixelBlock(i, n) == IF i >= n THEN <<>> ELSE <<i + 1, 0>> \o PixelBlock(i + 1, n)

\* the phase block: n big-endian int32 samples, the given ones first
RECURSIVE SampleBlock(_, _, _)
SampleBlock(samples, i, n) ==
    IF i >= n THEN <<>>
    ELSE (IF i < Len(samples) THEN samples[i + 1] ELSE <<0, 0, 0, i + 1>>) \o SampleBlock(samples, i + 1, n)

SynthFile(p) ==
    LET hs == IF p.size = W(0, 4096) THEN 4096 ELSE 834
        isz == p.acw * p.ach * (IF p.acb = 0 THEN 1 ELSE p.acb)
        psz == p.cnw * p.cnh
        len == Max(hs + 2 * isz + (IF p.drop_phase THEN 0 ELSE 4 * psz) - p.cut, 0)
        h1 == U32BE(p.magic) \o U16BE(p.format) \o U32BE(p.size)
        h2 == Put(h1, 12, <<p.text>>)
        h3 == Put(h2, 52, U16BE(p.acw) \o U16BE(p.ach) \o U16BE(p.acb))
        h4 == Put(h3, 64, U16BE(p.cox) \o U16BE(p.coy) \o U16BE(p.cnw) \o U16BE(p.cnh))
        h5 == Put(Put(Put(Put(h4, 164, p.sf \o p.wl), 176, p.of), 184, p.lr), 218, U16BE(p.pres))
        all == Put(h5, hs, PixelBlock(0, isz)) \o SampleBlock(p.samples, 0, psz)
    IN  SubSeq(all, 1, len)

\* the identity triple, a text byte and the length of the buffer vary
IdentityFiles ==
    { SynthFile(With(DefaultParams, [magic |-> mg, format |-> fm, size |-> sz, text |-> tx, cut |-> ct])) :
        mg \in Magics, fm \in {1, 2, 3}, sz \in {W(0, 834), W(0, 4096), W(1, 834)},
        tx \in {0, 65, 255}, ct \in {0, 23} }

\* the geometry of the intensity block, of the phase block and the crop origin vary
GeometryFiles ==
    { SynthFile(With(DefaultParams, [acw |-> aw, ach |-> ah, acb |-> ab, cnw |-> cw, cnh |-> ch,
                                     cox |-> ox, coy |-> oy])) :
        aw \in Dims, ah \in Dims, ab \in {0, MaxBuckets},
        cw \in Dims, ch \in Dims, ox \in Origins, oy \in Origins }

\* the buffer ends inside the phase block, inside the intensity block or inside the header
TruncatedFiles ==
    { SynthFile(With(DefaultParams, [acw |-> aw, ach |-> ah, acb |-> ab, cnw |-> cw, cnh |-> ch,
                                     cut |-> 1, drop_phase |-> dp])) :
        aw \in Dims, ah \in Dims, ab \in Buckets,
        cw \in Dims, ch \in Dims, dp \in BOOLEAN }

\* the raw phase samples, the calibration factors and the resolution code vary
CalibrationFiles ==
    { SynthFile(With(DefaultParams, [cnw |-> 2, cnh |-> 1, samples |-> <<s1, s2>>,
                                     sf |-> f1, of |-> f23[1], wl |-> f23[2], pres |-> pr])) :
        s1 \in Samples, s2 \in {<<0, 0, 0, 1>>, <<127, 255, 255, 248>>},
        f1 \in {F32_ZERO, F32_ONE, F32_TWO, F32_THREE, F32_INF, F32_NAN},
        f23 \in {<<F32_ONE, F32_ONE>>, <<F32_MINUS_ONE, F32_HALF>>},
        pr \in {0, 1, 2, 3} }

\* the resolution code varies with the size of the phase block, present or empty
ResolutionFiles ==
    { SynthFile(With(DefaultParams, [acw |-> aw, ach |-> aw, cnw |-> cw, cnh |-> ch, pres |-> pr])) :
        aw \in {0, 1}, cw \in Dims, ch \in Dims, pr \in {1, 3, 4096} }

\* the lateral resolution varies with the shapes of the frame and of the phase block
LateralFiles ==
    { SynthFile(With(DefaultParams, [acw |-> aw, ach |-> ah, cnw |-> c[1], cnh |-> c[2], lr |-> l])) :
        aw \in Dims, ah \in Dims, c \in {<<1, 1>>, <<1, MaxDim>>, <<MaxDim, 1>>},
        l \in {F32_HALF, F32_THREE, F32_MINUS_ONE, F32_INF, F32_NAN} }

(***************************************************************************)
(* Encoded headers: every field holds a chosen value, stored at the offset *)
(* of the field in its width, type and byte order.  The seed k selects the *)
(* values and the identity triple, the kind selects the text content.      *)
(***************************************************************************)
Seeds == {1, 2, 3}
TextKinds == {"ascii", "lead", "inner", "empty", "full", "utf8", "high"}

F32Patterns == <<F32_HALF, F32_ONE, F32_TWO, F32_THREE, F32_MINUS_ONE, F32_INF>>
ChosenF32(off, k) == F32Patterns[((off + k) % Len(F32Patterns)) + 1]
ChosenU16(off, k) == off + k
ChosenU32(off, k) == W(off + k, 2 * off + k)

\* the chosen str of a text field of w bytes: "AB", "\x00A", "A\x00B", "",
\* "CC...C" of the full width, "\xe9"; the kind "high" is no str
ChosenText(kind, w) ==
    CASE kind = "ascii" -> <<65, 66>>
      [] kind = "lead" -> <<0, 65>>
      [] kind = "inner" -> <<65, 0, 66>>
      [] kind = "empty" -> <<>>
      [] kind = "full" -> [i \in 1..w |-> 67]
      [] kind = "utf8" -> <<233>>

\* str.encode(ZYGO_ENC); the kind "high" is the byte 0xFF
EncodedText(kind) ==
    CASE kind = "utf8" -> <<195, 169>>
      [] kind = "high" -> <<255>>
      [] OTHER -> ChosenText(kind, 0)

\* the bytes of the chosen floats of an array field
RECURSIVE ChosenListBytes(_, _, _, _)
ChosenListBytes(fmt, a, e, k) ==
    IF a >= e THEN <<>>
    ELSE (IF fmt = "FB32" THEN ChosenF32(a, k) ELSE Reverse(ChosenF32(a, k)))
         \o ChosenListBytes(fmt, a + 4, e, k)

RECURSIVE ChosenList(_, _, _)
ChosenList(a, e, k) == IF a >= e THEN <<>> ELSE <<DecodeF32(ChosenF32(a, k))>> \o ChosenList(a + 4, e, k)

\* the bytes that store the chosen value of the field t
ChosenBytes(t, k, kind) ==
    CASE t[3] = "text" ->
            IF kind = "full" THEN ChosenText(kind, t[2] - t[1])
            ELSE EncodedText(kind) \o SubSeq(Zeros, 1, t[2] - t[1] - Len(EncodedText(kind)))
      [] t[3] = "Cstr" -> <<65 + k>>
      [] t[3] = "uint8" -> <<(t[1] + k) % 256>>
      [] t[4] = "list" -> ChosenListBytes(t[3], t[1], t[2], k)
      [] t[3] = "IB16" -> U16BE(ChosenU16(t[1], k))
      [] t[3] = "IL16" -> Reverse(U16BE(ChosenU16(t[1], k)))
      [] t[3] = "IB32" -> U32BE(ChosenU32(t[1], k))
      [] t[3] = "IL32" -> Reverse(U32BE(ChosenU32(t[1], k)))
      [] t[3] = "FB32" -> ChosenF32(t[1], k)
      [] t[3] = "FL32" -> Reverse(ChosenF32(t[1], k))

\* the chosen value of the field t: an int, a float, a list of floats, a str
ChosenValue(t, k, kind) ==
    CASE t[3] = "text" -> ChosenText(kind, t[2] - t[1])
      [] t[3] = "Cstr" -> <<65 + k>>
      [] t[3] = "uint8" -> (t[1] + k) % 256
      [] t[4] = "list" -> ChosenList(t[1], t[2], k)
      [] t[3] \in {"IB16", "IL16"} -> ChosenU16(t[1], k)
      [] t[3] \in {"IB32", "IL32"} -> ChosenU32(t[1], k)
      [] t[3] \in {"FB32", "FL32"} -> DecodeF32(ChosenF32(t[1], k))

\* the field that holds the byte at the offset o, "none" for a byte of no field
FieldAt ==
    [o \in 10..833 |->
        LET here == {n \in DOMAIN HeaderFields : HeaderFields[n][1] <= o /\ o < HeaderFields[n][2]}
        IN  IF here = {} THEN "none" ELSE CHOOSE n \in here : TRUE]

\* the byte at the offset o of the bytes that store the chosen value of the field n
ChosenByte(n, o, k, kind) == ChosenBytes(HeaderFields[n], k, kind)[o - HeaderFields[n][1] + 1]

\* the identity triple of the seed
ChosenTriple(k) ==
    CASE k = 1 -> U32BE(W(34843, 879)) \o U16BE(1) \o U32BE(W(0, 834))
      [] k = 2 -> U32BE(W(34843, 880)) \o U16BE(2) \o U32BE(W(0, 834))
      [] k = 3 -> U32BE(W(34843, 881)) \o U16BE(3) \o U32BE(W(0, 4096))

\* the first 834 bytes of a file
EncodedHeader(k, kind) ==
    [i \in 1..834 |->
        IF i <= 10 THEN ChosenTriple(k)[i]
        ELSE IF FieldAt[i - 1] = "none" THEN 0
        ELSE ChosenByte(FieldAt[i - 1], i - 1, k, kind)]

HeaderFiles == { EncodedHeader(k, kind) : k \in Seeds, kind \in TextKinds }

InputFiles ==
    IdentityFiles \cup GeometryFiles \cup TruncatedFiles \cup CalibrationFiles
    \cup ResolutionFiles \cup LateralFiles \cup HeaderFiles

\* the first bytes of an HDF5 file: the signature and the start of the superblock
H5Bytes == <<137, 72, 68, 70, 13, 10, 26, 10, 0, 0, 0, 0, 0, 8, 8, 0>>

\* an attribute of dtype object that holds a str or bytes, and one of dtype float64
TextAttr(key, chars, bytes) ==
    [prefixed |-> TRUE, key |-> key, dtype |-> "object", value |-> [bytes |-> bytes, chars |-> chars]]
FloatAttr(key, x) == [prefixed |-> TRUE, key |-> key, dtype |-> "float64", value |-> x]

\* attributes that the loop skips: a listed name and a compound dtype
SkippedAttrs ==
    << [prefixed |-> FALSE, key |-> "TextCount", dtype |-> "int32", value |-> 3],
       [prefixed |-> TRUE, key |-> "Resolution:Value", dtype |-> "compound", value |-> 0] >>

\* the unit and the value of the lateral resolution vary, or are missing
DatxAttributes ==
    { Ok(<<FloatAttr("Resolution:Value", FromInt(2))>> \o SkippedAttrs
           \o <<TextAttr("Resolution:Unit", un, by)>>) :
        by \in BOOLEAN,
        un \in {STR_Meters, STR_MiliMeters, STR_MicroMeters, STR_NanoMeters, <<73, 110>>, <<255>>} }
    \cup { Ok(SkippedAttrs), Ok(<<TextAttr("Resolution:Unit", STR_Meters, FALSE)>>),
           Raise("KeyError"), Raise("IndexError") }

DatxIntensities ==
    { Raise("KeyError"), Raise("OSError"), Raise("IndexError"),
      Ok(NDArray(<<1, 2>>, <<7, 65537>>)), Ok(NDArray(<<1, 1, 2>>, <<7, 65537>>)) }

DatxSurfaces ==
    { Ok([data |-> NDArray(<<1, 2>>, <<d1, FromInt(5)>>), no_data |-> nd,
          wavelength |-> wl, scale_factor |-> FromInt(2), obliquity |-> FromInt(1)]) :
        d1 \in {FZero, FromInt(3), NaN}, nd \in {FromInt(5), FromInt(8)},
        wl \in {DecodeF32(F32_HALF)} }
    \cup { Raise("KeyError"), Raise("IndexError") }

DatxFiles ==
    { [Intensity |-> i, Surface |-> sf, Attributes |-> at] :
        i \in DatxIntensities, sf \in DatxSurfaces, at \in DatxAttributes }

\* the orders p of remove_polynomials: the default and the next one
Orders == {1, 2}

\* a file on disk: the suffix of its name, its bytes, and the HDF5 file they hold
File(suffix, contents, h5) == [suffix |-> suffix, contents |-> contents, h5 |-> h5]

(***************************************************************************)
(* The state machine: a caller holds one file and calls one of the four    *)
(* functions of the module on it.                                          *)
(***************************************************************************)
VARIABLES file_name, called, result

vars == <<file_name, called, result>>

Init ==
    /\ file_name \in {File(".dat", c, None) : c \in InputFiles}
                     \cup {File(".datx", H5Bytes, f) : f \in DatxFiles}
                     \cup {File(".txt", SynthFile(DefaultParams), None),
                           File(".datx", SynthFile(DefaultParams), None),
                           File(".dat", H5Bytes, CHOOSE f \in DatxFiles : IsOk(f.Intensity))}
    /\ called = "none"
    /\ result = Raise("pending")

Call_read_zygo_dat_meta ==
    /\ called = "none"
    /\ called' = "_read_zygo_dat_meta"
    /\ result' = _read_zygo_dat_meta(file_name.contents)
    /\ UNCHANGED file_name

Call_read_zygo_dat ==
    /\ called = "none"
    /\ called' = "read_zygo_dat"
    /\ result' = read_zygo_dat(file_name.contents)
    /\ UNCHANGED file_name

Call_read_zygo_datx ==
    /\ called = "none"
    /\ called' = "read_zygo_datx"
    /\ result' = read_zygo_datx(file_name.h5)
    /\ UNCHANGED file_name

Call_read_zygo_binary ==
    /\ called = "none"
    /\ called' = "read_zygo_binary"
    /\ result' = read_zygo_binary(file_name)
    /\ UNCHANGED file_name

\* the full-frame grids of a .dat file are the arguments, as in the tests
Call_remove_surface ==
    /\ called = "read_zygo_binary" /\ IsOk(result) /\ file_name.suffix = ".dat"
    /\ called' = "remove_surface"
    /\ \E coeffs \in lstsq(design_surface(select(result.val.X, result.val.Z, 1),
                                           select(result.val.Y, result.val.Z, 1))) :
          result' = remove_surface(result.val.X, result.val.Y, result.val.Z, coeffs)
    /\ UNCHANGED file_name

Call_remove_polynomials ==
    /\ called = "read_zygo_binary" /\ IsOk(result) /\ file_name.suffix = ".dat"
    /\ called' = "remove_polynomials"
    /\ \E p \in Orders :
          \E coeffs \in lstsq(design_polynomials(select(result.val.X, result.val.Z, 1),
                                                 select(result.val.Y, result.val.Z, 1),
                                                 select(result.val.Z, result.val.Z, 1), p)) :
              result' = remove_polynomials(result.val.X, result.val.Y, result.val.Z, p, coeffs)
    /\ UNCHANGED file_name

Call_remove_sphere ==
    /\ called = "read_zygo_binary" /\ IsOk(result) /\ file_name.suffix = ".dat"
    /\ called' = "remove_sphere"
    /\ \E coeffs \in lstsq(design_sphere(select(result.val.X, result.val.Z, 1),
                                          select(result.val.Y, result.val.Z, 1))) :
          result' = remove_sphere(result.val.X, result.val.Y, result.val.Z, coeffs)
    /\ UNCHANGED file_name

Next ==
    \/ Call_read_zygo_dat_meta
    \/ Call_read_zygo_dat
    \/ Call_read_zygo_datx
    \/ Call_read_zygo_binary
    \/ Call_remove_surface
    \/ Call_remove_polynomials
    \/ Call_remove_sphere

Spec == Init /\ [][Next]_vars

(***************************************************************************)
(* Vocabulary of the properties: the file as the caller sees it.           *)
(***************************************************************************)
buf == file_name.contents
U16At(b, o) == b[o + 1] * 256 + b[o + 2]
U32At(b, o) == W(U16At(b, o), U16At(b, o + 2))
I32At(b, o) == W((IF b[o + 1] >= 128 THEN b[o + 1] - 256 ELSE b[o + 1]) * 256 + b[o + 2], U16At(b, o + 2))
F32At(b, o) == DecodeF32(SubSeq(b, o + 1, o + 4))

LeadingTriple == <<U32At(buf, 0), U16At(buf, 4), U32At(buf, 6)>>
RecognizedTriples ==
    { <<W(34843, 879), 1, W(0, 834)>>, <<W(34843, 880), 2, W(0, 834)>>, <<W(34843, 881), 3, W(0, 4096)>> }

\* the Measurement that the reader of the suffix decodes from the file
Measurement ==
    IF file_name.suffix = ".datx" THEN read_zygo_datx(file_name.h5) ELSE read_zygo_dat(buf)
Decoded == called = "read_zygo_binary" /\ file_name.suffix \in {".dat", ".datx"} /\ IsOk(Measurement)
DatDecoded == Decoded /\ file_name.suffix = ".dat"
HasIntensity == Measurement.val.intensity # None
HasPhase == Measurement.val.phase # None
FrameShape == <<Measurement.val.intensity.shape[2], Measurement.val.intensity.shape[3]>>
Hdr(n) == Measurement.val.meta[n]

SameShape3(a, b, c) == a.shape = b.shape /\ b.shape = c.shape

\* the declared sizes of the two blocks, in items, and the offset of the phase block
IntensSize(meta) == meta["ac_width"] * meta["ac_height"] * Max(meta["ac_n_buckets"], 1)
PhaseSize(meta) == meta["cn_width"] * meta["cn_height"]
PhaseOffset(meta) == meta["header_size"] + 2 * IntensSize(meta)
RawSample(meta, i) == I32At(buf, PhaseOffset(meta) + 4 * (i - 1))
IsSentinel(w) == ~WLess(w, WFromInt(2147483640))

C2_PhaseAtCropWindow ==
    ( /\ DatDecoded /\ HasIntensity /\ HasPhase
      /\ Measurement.val.phase.shape # FrameShape
      /\ Hdr("cn_org_y") + Hdr("cn_height") <= FrameShape[1]
      /\ Hdr("cn_org_x") + Hdr("cn_width") <= FrameShape[2] )
    => ( /\ IsOk(result)
         /\ LET r0 == Hdr("cn_org_y")
                c0 == Hdr("cn_org_x")
                r1 == r0 + Hdr("cn_height")
                c1 == c0 + Hdr("cn_width")
            IN  /\ \A i \in 0..(FrameShape[1] - 1), j \in 0..(FrameShape[2] - 1) :
                      At(result.val.Z, i, j) =
                          IF i >= r0 /\ i < r1 /\ j >= c0 /\ j < c1
                          THEN At(Measurement.val.phase, i - r0, j - c0)
                          ELSE NaN
                /\ result.val.X_cropped = getslice(result.val.X, r0, r1, c0, c1)
                /\ result.val.Y_cropped = getslice(result.val.Y, r0, r1, c0, c1) )

(***************************************************************************)
(* C3                                                                      *)
(***************************************************************************)
\* C3: when the crop window of the header reaches past the full frame in a
\* dimension, read_zygo_binary fails and returns no grids.
C3_OutOfRangeWindowFails ==
    ( /\ DatDecoded /\ HasIntensity /\ HasPhase
      /\ Measurement.val.phase.shape # FrameShape
      /\ \/ Hdr("cn_org_y") + Hdr("cn_height") > FrameShape[1]
         \/ Hdr("cn_org_x") + Hdr("cn_width") > FrameShape[2] )
    => ~IsOk(result)

(***************************************************************************)
(* C4                                                                      *)
(***************************************************************************)
\* C4: with intensity present and a phase shape equal to the frame shape the
\* call succeeds and the cropped triple is the full-frame triple, whatever
\* the crop origin of the header.
C4_EqualShapesCroppedIsFull ==
    (DatDecoded /\ HasIntensity /\ HasPhase /\ Measurement.val.phase.shape = FrameShape)
    => ( /\ IsOk(result)
         /\ result.val.X_cropped = result.val.X
         /\ result.val.Y_cropped = result.val.Y
         /\ result.val.Z_cropped = result.val.Z )

C6_CroppedShapesAgree ==
    (called = "read_zygo_binary" /\ IsOk(result))
    => SameShape3(result.val.X_cropped, result.val.Y_cropped, result.val.Z_cropped)

(***************************************************************************)
(* C7                                                                      *)
(***************************************************************************)
\* C7: when the declared intensity block is not empty but runs past the end
\* of the buffer, read_zygo_dat does not raise because of it and reports the
\* intensity as None (stated where no phase block is declared, so that no
\* other read can fail).
C7_TruncatedIntensityIsNone ==
    LET m == _read_zygo_dat_meta(buf)
    IN  ( /\ called = "read_zygo_dat" /\ IsOk(m)
          /\ IntensSize(m.val) > 0 /\ Len(buf) < PhaseOffset(m.val) /\ PhaseSize(m.val) = 0 )
        => (IsOk(result) /\ result.val.intensity = None)

(***************************************************************************)
(* C8                                                                      *)
(***************************************************************************)
\* C8: when the declared phase block is not empty and the buffer is shorter
\* than header_size + 2*intens_size + 4*cn_width*cn_height, read_zygo_dat
\* fails and returns no Measurement.
C8_TruncatedPhaseFails ==
    LET m == _read_zygo_dat_meta(buf)
    IN  ( /\ called = "read_zygo_dat" /\ IsOk(m)
          /\ PhaseSize(m.val) > 0 /\ Len(buf) < PhaseOffset(m.val) + 4 * PhaseSize(m.val) )
        => ~IsOk(result)

C8_Witness ==
    LET m == _read_zygo_dat_meta(buf)
    IN  /\ called = "read_zygo_dat" /\ IsOk(m)
        /\ IntensSize(m.val) > 0 /\ PhaseSize(m.val) > 0
        /\ Len(buf) >= PhaseOffset(m.val)
        /\ Len(buf) < PhaseOffset(m.val) + 4 * PhaseSize(m.val)
        /\ result = Raise("ValueError")

(***************************************************************************)
(* C9                                                                      *)
(***************************************************************************)
PhaseDecoded == called = "read_zygo_dat" /\ IsOk(result) /\ result.val.phase # None
FiniteFactors(meta) ==
    IsFinite(meta["scale_factor"]) /\ IsFinite(meta["obliquity_factor"]) /\ IsFinite(meta["wavelength"])
Masked(i) == IsNaN(result.val.phase.data[i])

\* C9 as stated: for any calibration factors, the entries of the calibrated
\* phase that are the missing-value marker are exactly those of the raw
\* samples >= 2147483640.
C9_MaskedIffSentinel ==
    PhaseDecoded =>
        (\A i \in 1..PhaseSize(result.val.meta) :
            Masked(i) <=> IsSentinel(RawSample(result.val.meta, i)))

\* C9 amended: for finite calibration factors, the entries of the calibrated
\* phase that are the missing-value marker are exactly those of the raw
\* samples >= 2147483640 (every sample below, negative ones included, is a
\* number), so the two counts agree.
C9_MaskedIffSentinelFinite ==
    (PhaseDecoded /\ FiniteFactors(result.val.meta))
    => ( /\ \A i \in 1..PhaseSize(result.val.meta) :
              Masked(i) <=> IsSentinel(RawSample(result.val.meta, i))
         /\ Cardinality({i \in 1..PhaseSize(result.val.meta) : Masked(i)})
              = Cardinality({i \in 1..PhaseSize(result.val.meta) :
                               IsSentinel(RawSample(result.val.meta, i))}) )

C9_Witness ==
    /\ PhaseDecoded /\ FiniteFactors(result.val.meta)
    /\ result.val.meta["phase_res"] = 2
    /\ RawSample(result.val.meta, 1) = WFromInt(2147483639)
    /\ ~Masked(1)
    /\ RawSample(result.val.meta, 2) = WFromInt(2147483640)
    /\ Masked(2)

(***************************************************************************)
(* C10                                                                     *)
(***************************************************************************)
Divisor(code) == CASE code = 0 -> 4096 [] code = 1 -> 32768 [] code = 2 -> 131072

\* r * scale_factor * obliquity_factor * wavelength / D from the bytes of the file
Expected(meta, i) ==
    FDivPow2(FMul(FMul(FMul(astype_float(RawSample(meta, i)), F32At(buf, 164)),
                       F32At(buf, 176)), F32At(buf, 168)),
             Divisor(U16At(buf, 218)))

\* the binary32 of twice the value
DoubleF32(b) ==
    LET s == b[1] \div 128
        ex == (b[1] % 128) * 2 + (b[2] \div 128)
        mant == (b[2] % 128) * 65536 + b[3] * 256 + b[4]
        enc(e, m) == <<s * 128 + (e \div 2), (e % 2) * 128 + (m \div 65536), (m \div 256) % 256, m % 256>>
    IN  IF ex = 255 THEN b
        ELSE IF ex = 254 THEN enc(255, 0)
        ELSE IF ex = 0 THEN (IF 2 * mant >= 8388608 THEN enc(1, 2 * mant - 8388608) ELSE enc(0, 2 * mant))
        ELSE enc(ex + 1, mant)

\* the same file with scale_factor doubled
DoubledScale == SubSeq(buf, 1, 164) \o DoubleF32(SubSeq(buf, 165, 168)) \o SubSeq(buf, 169, Len(buf))

\* C10: every raw sample r below the sentinel yields r * scale_factor *
\* obliquity_factor * wavelength / D with D = 4096, 32768, 131072 for the
\* codes 0, 1, 2; with scale_factor doubled, every output that is not
\* missing doubles and the missing entries stay the same.
C10_CalibratedValueLinear ==
    PhaseDecoded =>
        ( /\ \A i \in 1..PhaseSize(result.val.meta) :
                ~IsSentinel(RawSample(result.val.meta, i))
                    => result.val.phase.data[i] = Expected(result.val.meta, i)
          /\ LET twice == read_zygo_dat(DoubledScale)
             IN  /\ IsOk(twice)
                 /\ \A i \in 1..PhaseSize(result.val.meta) :
                       IF Masked(i) THEN IsNaN(twice.val.phase.data[i])
                       ELSE twice.val.phase.data[i] = FMul(FromInt(2), result.val.phase.data[i]) )

C10_Witness ==
    /\ PhaseDecoded
    /\ result.val.meta["phase_res"] = 1
    /\ result.val.meta["scale_factor"] = FromInt(3)
    /\ result.val.meta["obliquity_factor"] = FromInt(-1)
    /\ RawSample(result.val.meta, 1) = WFromInt(256)
    /\ result.val.phase.data[1] = Fin(WFromInt(-3), -8)

(***************************************************************************)
(* C11                                                                     *)
(***************************************************************************)
\* C11: read_zygo_dat fails, and returns no Measurement, for every file
\* whose header decodes and carries a phase_res code other than 0, 1, 2.
C11_UnknownCodeFails ==
    LET m == _read_zygo_dat_meta(buf)
    IN  (called = "read_zygo_dat" /\ IsOk(m) /\ U16At(buf, 218) \notin {0, 1, 2})
        => ~IsOk(result)

(***************************************************************************)
(* C12                                                                     *)
(***************************************************************************)
\* the uint16 that the host (little-endian) reads at the byte offset o
HostU16At(b, o) == b[o + 1] + 256 * b[o + 2]

\* C12: on a return of read_zygo_dat the intensity is present iff
\* ac_width*ac_height > 0, whatever the bucket count; when present its shape
\* is [max(ac_n_buckets, 1), ac_height, ac_width] and the element (b, r, c)
\* is the unsigned 16-bit sample at the byte offset
\* header_size + 2*((b*ac_height + r)*ac_width + c).
C12_IntensityLayout ==
    (called = "read_zygo_dat" /\ IsOk(result))
    => LET w == U16At(buf, 52)
           h == U16At(buf, 54)
           nb == Max(U16At(buf, 56), 1)
           hs == result.val.meta["header_size"]
       IN  /\ (result.val.intensity # None) <=> (w * h > 0)
           /\ (w * h > 0) =>
                 ( /\ result.val.intensity.shape = <<nb, h, w>>
                   /\ Len(result.val.intensity.data) = nb * h * w
                   /\ \A b \in 0..(nb - 1), r \in 0..(h - 1), c \in 0..(w - 1) :
                         result.val.intensity.data[(b * h + r) * w + c + 1]
                             = HostU16At(buf, hs + 2 * ((b * h + r) * w + c)) )

C12_Witness ==
    /\ called = "read_zygo_dat" /\ IsOk(result)
    /\ U16At(buf, 56) = 0
    /\ result.val.intensity # None
    /\ result.val.intensity.shape = <<1, MaxDim, 1>>
    /\ result.val.intensity.data[2] = 2
    /\ result.val.phase # None

(***************************************************************************)
(* C13                                                                     *)
(***************************************************************************)
\* C13: on a return of read_zygo_dat the phase is present iff
\* cn_width*cn_height > 0; when present its shape is [cn_height, cn_width]
\* and the entry (r, c) is the calibrated value of the big-endian signed
\* 32-bit integer at the byte offset
\* header_size + 2*intens_size + 4*(r*cn_width + c), with
\* intens_size = ac_width*ac_height*max(ac_n_buckets, 1).
C13_PhaseLayout ==
    (called = "read_zygo_dat" /\ IsOk(result))
    => LET cw == U16At(buf, 68)
           ch == U16At(buf, 70)
           meta == result.val.meta
           start == meta["header_size"] + 2 * (U16At(buf, 52) * U16At(buf, 54) * Max(U16At(buf, 56), 1))
       IN  /\ (result.val.phase # None) <=> (cw * ch > 0)
           /\ (cw * ch > 0) =>
                 ( /\ result.val.phase.shape = <<ch, cw>>
                   /\ Len(result.val.phase.data) = ch * cw
                   /\ \A r \in 0..(ch - 1), c \in 0..(cw - 1) :
                         At(result.val.phase, r, c)
                             = FMul(mask_invalid(astype_float(I32At(buf, start + 4 * (r * cw + c)))),
                                    calibration(meta)) )

C13_Witness ==
    /\ called = "read_zygo_dat" /\ IsOk(result)
    /\ result.val.intensity = None
    /\ U16At(buf, 56) = MaxBuckets
    /\ Len(buf) = 834 + 8
    /\ result.val.phase # None
    /\ result.val.phase.shape = <<2, 1>>
    /\ At(result.val.phase, 1, 0) = Fin(WFromInt(1), -11)

(***************************************************************************)
(* C14                                                                     *)
(***************************************************************************)
NumericFields ==
    { n \in DOMAIN HeaderFields : HeaderFields[n][3] \in {"IB16", "IL16", "IB32", "IL32", "FB32", "FL32"} }

\* one number of 2 or 4 bytes at the offset o, read big-endian or little-endian
NumberAs(b, fmt, o, big) ==
    CASE fmt \in {"IB16", "IL16"} -> IF big THEN U16At(b, o) ELSE HostU16At(b, o)
      [] fmt \in {"IB32", "IL32"} ->
            IF big THEN U32At(b, o) ELSE W(HostU16At(b, o + 2), HostU16At(b, o))
      [] fmt \in {"FB32", "FL32"} ->
            IF big THEN F32At(b, o) ELSE DecodeF32(Reverse(SubSeq(b, o + 1, o + 4)))

\* the value of the numeric field n with all its numbers read in one byte order
FieldAs(b, n, big) ==
    LET t == HeaderFields[n]
    IN  CASE t[4] = "list" -> [i \in 1..((t[2] - t[1]) \div 4) |-> NumberAs(b, t[3], t[1] + 4 * (i - 1), big)]
          [] t[4] = "tuple" -> <<NumberAs(b, t[3], t[1], big)>>
          [] OTHER -> NumberAs(b, t[3], t[1], big)

\* C14 as stated: every multi-byte numeric field at an offset below 502 is
\* decoded big-endian and every one at an offset of 502 or above is decoded
\* little-endian.
C14_EndiannessByOffset ==
    (called = "_read_zygo_dat_meta" /\ IsOk(result))
    => (\A n \in NumericFields : result.val[n] = FieldAs(buf, n, HeaderFields[n][1] < 502))

\* C14 amended: every multi-byte numeric field at an offset below 502 is
\* decoded big-endian except rad_crv_measure_seq (offset 208), which is
\* little-endian, and every one at an offset of 502 or above is decoded
\* little-endian except rem_fringes_mode (offset 734), which is big-endian.
C14_EndiannessByOffsetButTwo ==
    (called = "_read_zygo_dat_meta" /\ IsOk(result))
    => (\A n \in NumericFields :
           result.val[n] = FieldAs(buf, n, CASE n = "rad_crv_measure_seq" -> FALSE
                                             [] n = "rem_fringes_mode" -> TRUE
                                             [] OTHER -> HeaderFields[n][1] < 502))

C14_Witness ==
    /\ called = "_read_zygo_dat_meta" /\ IsOk(result)
    /\ result.val["rad_crv_measure_seq"] = 209 /\ U16At(buf, 208) = 209 * 256
    /\ result.val["rem_fringes_mode"] = 735 /\ U16At(buf, 734) = 735
    /\ result.val["min_mod"] = U32At(buf, 210) /\ result.val["min_mod"] = W(211, 421)
    /\ result.val["coords_state"] = W(503, 1005) /\ U32At(buf, 502) # W(503, 1005)
    /\ result.val["coords_x_pos"] # F32At(buf, 506)

(***************************************************************************)
(* C15                                                                     *)
(***************************************************************************)
\* the value under the name n is the 1-tuple that struct.unpack returned
IsTuple(n) == HeaderFields[n][4] = "tuple"

\* C15: decoding a header that stores a chosen value for every field yields
\* exactly the chosen value under the name of the field: a scalar (not a
\* tuple that holds it) for the scalar numeric fields, n_fiducials included,
\* a list for the array fields and a str for the text fields.
C15_HeaderRoundTrip ==
    LET k == U16At(buf, 10) - 10
    IN  \A kind \in TextKinds \ {"high"} :
            (called = "_read_zygo_dat_meta" /\ Len(buf) = 834 /\ k \in Seeds /\ buf = EncodedHeader(k, kind))
            => ( /\ IsOk(result)
                 /\ \A n \in DOMAIN HeaderFields :
                       ~IsTuple(n) /\ result.val[n] = ChosenValue(HeaderFields[n], k, kind) )

(***************************************************************************)
(* C16                                                                     *)
(***************************************************************************)
\* the shape of the full-frame mesh: the frame of the intensity when there
\* is one, the shape of the phase otherwise
MeshShape == IF HasIntensity THEN FrameShape ELSE Measurement.val.phase.shape

\* X[i][j] = j*L and Y[i][j] = (m-1-i)*L on the m x n mesh
MeshIs(X, Y, m, n, L) ==
    /\ X.shape = <<m, n>>
    /\ Y.shape = <<m, n>>
    /\ \A i \in 0..(m - 1), j \in 0..(n - 1) :
          /\ At(X, i, j) = FMul(FromInt(j), L)
          /\ At(Y, i, j) = FMul(FromInt(m - 1 - i), L)

\* C16 as stated: in both branches, for any lateral resolution L, the
\* full-frame mesh of read_zygo_binary is X[i][j] = j*L and
\* Y[i][j] = (m-1-i)*L, the last row at Y = 0.
C16_MeshScaledFlipped ==
    (Decoded /\ IsOk(result))
    => MeshIs(result.val.X, result.val.Y, MeshShape[1], MeshShape[2], Hdr("lateral_res"))

\* C16 amended: in both branches, for a finite lateral resolution L, the
\* full-frame mesh of read_zygo_binary is X[i][j] = j*L and
\* Y[i][j] = (m-1-i)*L, the last row at Y = 0.
C16_MeshScaledFlippedFinite ==
    (Decoded /\ IsOk(result) /\ IsFinite(Hdr("lateral_res")))
    => MeshIs(result.val.X, result.val.Y, MeshShape[1], MeshShape[2], Hdr("lateral_res"))

C16_Witness ==
    /\ DatDecoded /\ IsOk(result) /\ HasIntensity
    /\ Hdr("lateral_res") = FromInt(3)
    /\ FrameShape = <<MaxDim, MaxDim>>
    /\ At(result.val.Y, 0, 1) = FromInt(3 * (MaxDim - 1))
    /\ At(result.val.Y, MaxDim - 1, 1) = FZero
    /\ At(result.val.X, 0, 1) = FromInt(3)

(***************************************************************************)
(* C17                                                                     *)
(***************************************************************************)
\* C17: on a .datx file without an intensity dataset read_zygo_binary
\* returns None for X, Y and Z and still returns the cropped triple.
C17_DatxFullFrameIsNone ==
    (Decoded /\ file_name.suffix = ".datx" /\ ~HasIntensity)
    => ( /\ IsOk(result)
         /\ result.val.X = None /\ result.val.Y = None /\ result.val.Z = None
         /\ result.val.X_cropped # None /\ result.val.Y_cropped # None /\ result.val.Z_cropped # None )

(***************************************************************************)
(* C18                                                                     *)
(***************************************************************************)
\* C18: remove_surface and remove_polynomials each return exactly three
\* values, (Z_res, Z_fit, fit_func).
C18_ReturnsThreeValues ==
    (called \in {"remove_surface", "remove_polynomials"} /\ IsOk(result))
    => (Len(result.val) = 3)

(***************************************************************************)
(* C19                                                                     *)
(***************************************************************************)
TextFields == { n \in DOMAIN HeaderFields : HeaderFields[n][3] \in {"text", "Cstr"} }

\* the number of NUL bytes that end the bytes b
TrailingNuls(b) ==
    IF \A i \in 1..Len(b) : b[i] = 0 THEN Len(b)
    ELSE Len(b) - (CHOOSE i \in 1..Len(b) : b[i] # 0 /\ \A j \in (i + 1)..Len(b) : b[j] = 0)

\* C19: whatever bytes fill the ranges of the text fields of a header with a
\* recognized triple, the header decodes and every text field has one
\* character per byte of its range, the trailing NUL bytes left out.
C19_TextDecodesAnyBytes ==
    (called = "_read_zygo_dat_meta" /\ Len(buf) >= 834 /\ LeadingTriple \in RecognizedTriples)
    => ( /\ IsOk(result)
         /\ \A n \in TextFields :
               LET b == SubSeq(buf, HeaderFields[n][1] + 1, HeaderFields[n][2])
               IN  Len(result.val[n]) = Len(b) - TrailingNuls(b) )

(***************************************************************************)
(* C20                                                                     *)
(***************************************************************************)
\* C20: on every successful return of read_zygo_binary for a .dat file,
\* Z_cropped is the calibrated phase array of read_zygo_dat, also when the
\* shape of the phase equals the shape of the intensity frame.
C20_CroppedHeightIsPhase ==
    (DatDecoded /\ IsOk(result))
    => (result.val.Z_cropped = Measurement.val.phase)

C20_Witness ==
    /\ DatDecoded /\ IsOk(result) /\ HasIntensity /\ HasPhase
    /\ Measurement.val.phase.shape = FrameShape
    /\ FrameShape = <<1, 1>>
    /\ Hdr("cn_org_x") = 1
    /\ result.val.Z_cropped = Measurement.val.phase
    /\ ~IsNaN(At(result.val.Z_cropped, 0, 0))
    /\ IsNaN(At(result.val.Z, 0, 0))

(***************************************************************************)
(* C21                                                                     *)
(***************************************************************************)
\* C21: when the decoded Measurement has no phase array, read_zygo_binary
\* returns no grid tuple: it fails with an error, both when the intensity is
\* absent and when it is present.
C21_NoPhaseNoGrids ==
    (Decoded /\ ~HasPhase)
    => ( /\ ~IsOk(result)
         /\ result = Raise("AttributeError") )

C21_Witness ==
    /\ DatDecoded /\ ~HasPhase /\ HasIntensity
    /\ Hdr("cn_width") * Hdr("cn_height") = 0
    /\ FrameShape = <<MaxDim, MaxDim>>
    /\ result = Raise("AttributeError")

(***************************************************************************)
(* C22                                                                     *)
(***************************************************************************)
\* the grids that the caller handed to the fit: the return of read_zygo_binary
FitGrids == read_zygo_binary(file_name).val

\* the indices, in row-major order, of the valid (finite) entries of Z
ValidPoints(Z) == { k \in 1..Len(Z.data) : IsFinite(Z.data[k]) }

\* the row of the design matrix that belongs to the valid entry k of Z
RowOf(Z, k) == Cardinality({ j \in ValidPoints(Z) : j <= k })

\* the entry r of H*coeffs for a design matrix of five columns
ModelAt(H, coeffs, r) ==
    FAdd(FAdd(FAdd(FAdd(FMul(At(H, r - 1, 0), coeffs[1]), FMul(At(H, r - 1, 1), coeffs[2])),
                   FMul(At(H, r - 1, 2), coeffs[3])),
              FMul(At(H, r - 1, 3), coeffs[4])),
         FMul(At(H, r - 1, 4), coeffs[5]))

\* C22: on a return of remove_sphere, at every valid (finite-Z) point Z_fit
\* is the least-squares model H*coeffs of the five columns 1, x, y, x*x, y*y,
\* each with its own coefficient, and Z_res is Z - H*coeffs.
C22_SphereFitIsModel ==
    (called = "remove_sphere" /\ IsOk(result))
    => LET g == FitGrids
           H == design_sphere(select(g.X, g.Z, 1), select(g.Y, g.Z, 1))
       IN  \A k \in ValidPoints(g.Z) :
              /\ result.val[2].data[k] = ModelAt(H, result.val[4], RowOf(g.Z, k))
              /\ result.val[1].data[k] = FSub(g.Z.data[k], ModelAt(H, result.val[4], RowOf(g.Z, k)))

====
